---- MODULE Spec2Model ----
(***************************************************************************)
(* Model of the learning-rate schedule of the Keras Hub classification     *)
(* guide (guides/ipynb/keras_hub/classification_with_keras_hub.ipynb):     *)
(* the function lr_warmup_cosine_decay and the class WarmUpCosineDecay.    *)
(*                                                                         *)
(* Floating-point values are modelled in fixed point: a finite value is an *)
(* integer count of 1/Scale units, every arithmetic operation rounds to    *)
(* the nearest unit, and the IEEE specials NaN and +/-infinity are kept as *)
(* separate kinds, because the divisions of the code are unguarded.        *)
(***************************************************************************)
EXTENDS Integers, Sequences, FiniteSets, TLC

(* ---------------------------------------------------------------------- *)
(* Bounds of the model.                                                    *)
(* ---------------------------------------------------------------------- *)
MaxW == 2
MaxHold == 2
MaxTotal == 5
MaxNeg == 1
MaxStep == 6
MaxCalls == 3
MaxEpochs == 3
MaxTrain == 7
MaxAugs == 4
MaxLabel == 1

(* ---------------------------------------------------------------------- *)
(* Fixed-point floats.                                                     *)
(* ---------------------------------------------------------------------- *)
Scale == 10^6
K == 10^3

Abs(n) == IF n < 0 THEN -n ELSE n
Sgn(n) == IF n < 0 THEN -1 ELSE IF n > 0 THEN 1 ELSE 0

Fin(n) == [k |-> "fin", v |-> n]
NaN == [k |-> "nan", v |-> 0]
Inf(s) == [k |-> "inf", v |-> s]
Raise == [k |-> "ZeroDivisionError", v |-> 0]

\* a / b rounded to the nearest integer, a >= 0, b > 0
RoundDivU(a, b) == (2 * a + b) \div (2 * b)
RoundDiv(a, b) == Sgn(a) * Sgn(b) * RoundDivU(Abs(a), Abs(b))

\* (a * b) / Scale rounded to the nearest unit, a, b >= 0; the product is
\* formed in halves so that no intermediate value leaves 32 bits
MulU(a, b) ==
    LET a1 == a \div K
        a0 == a % K
        b1 == b \div K
        b0 == b % K
    IN  a1 * b1 + (a1 * b0 + a0 * b1 + ((a0 * b0) \div K) + (K \div 2)) \div K
FxMul(a, b) == Sgn(a) * Sgn(b) * MulU(Abs(a), Abs(b))

\* x * y of two floats
FMul(x, y) ==
    IF x.k = "nan" \/ y.k = "nan" THEN NaN
    ELSE IF x.k = "inf" \/ y.k = "inf"
         THEN IF Sgn(x.v) * Sgn(y.v) = 0 THEN NaN ELSE Inf(Sgn(x.v) * Sgn(y.v))
         ELSE Fin(FxMul(x.v, y.v))

\* x + y of two floats
FAdd(x, y) ==
    IF x.k = "nan" \/ y.k = "nan" THEN NaN
    ELSE IF x.k = "inf" /\ y.k = "inf"
         THEN IF x.v = y.v THEN x ELSE NaN
         ELSE IF x.k = "inf" THEN x
              ELSE IF y.k = "inf" THEN y
                   ELSE Fin(x.v + y.v)

\* a / b of two integers as a tensor division: no error, IEEE specials
TensorDiv(a, b) ==
    IF b = 0
    THEN IF a = 0 THEN NaN ELSE Inf(Sgn(a))
    ELSE Fin(RoundDiv(a * Scale, b))

\* a / b of two Python numbers: ZeroDivisionError when b = 0
PyDiv(a, b) == IF b = 0 THEN Raise ELSE Fin(RoundDiv(a * Scale, b))

(* The cosine.  The code evaluates ops.cos at the float32 value                *)
(*     q = fl32(fl32(pi32 * x) / d),   pi32 = fl32(math.pi) = Pi32 * 2^-22,    *)
(* which differs from the angle pi*x/d by the error of pi32 and the two     *)
(* roundings to 24 significant bits; the difference grows with |x/d|.  The  *)
(* model computes that difference exactly (DeltaNano) and the cosine of the *)
(* angle itself in units of 1/FineScale, and combines the two.              *)
FineScale == 10^8
FineK == 10^4

\* (a * b) / FineScale rounded to the nearest unit, a, b >= 0
FineMulU(a, b) ==
    LET a1 == a \div FineK
        a0 == a % FineK
        b1 == b \div FineK
        b0 == b % FineK
    IN  a1 * b1
        + (a1 * b0 + a0 * b1 + ((a0 * b0) \div FineK) + (FineK \div 2))
              \div FineK
FineMul(a, b) == Sgn(a) * Sgn(b) * FineMulU(Abs(a), Abs(b))

\* pi = (PiFineHi * FineK + PiFineLo) / FineScale
PiFineHi == 31415
PiFineLo == 9265

\* pi * n / d in units of 1/FineScale, n >= 0, d > 0
Theta(n, d) ==
    LET a == PiFineHi * n
    IN  (a \div d) * FineK + RoundDivU((a % d) * FineK + PiFineLo * n, d)

\* cosine and sine kernels on [0, pi/4], Taylor polynomials in Horner form,
\* argument and result in units of 1/FineScale
CosKernel(t) ==
    LET x2 == FineMulU(t, t)
        c5 == FineScale - RoundDivU(x2, 90)
        c4 == FineScale - RoundDivU(FineMulU(x2, c5), 56)
        c3 == FineScale - RoundDivU(FineMulU(x2, c4), 30)
        c2 == FineScale - RoundDivU(FineMulU(x2, c3), 12)
    IN  FineScale - RoundDivU(FineMulU(x2, c2), 2)
SinKernel(t) ==
    LET x2 == FineMulU(t, t)
        s5 == FineScale - RoundDivU(x2, 110)
        s4 == FineScale - RoundDivU(FineMulU(x2, s5), 72)
        s3 == FineScale - RoundDivU(FineMulU(x2, s4), 42)
        s2 == FineScale - RoundDivU(FineMulU(x2, s3), 20)
        s1 == FineScale - RoundDivU(FineMulU(x2, s2), 6)
    IN  FineMulU(t, s1)

\* cos(pi * r / d) and sin(pi * r / d) for 0 <= 2r <= d
CosOctant(r, d) ==
    IF 4 * r <= d
    THEN CosKernel(Theta(r, d))
    ELSE SinKernel(Theta(d - 2 * r, 2 * d))
SinOctant(r, d) ==
    IF 4 * r <= d
    THEN SinKernel(Theta(r, d))
    ELSE CosKernel(Theta(d - 2 * r, 2 * d))

\* cos and sin of the angle pi * x / d itself, d > 0, in units of
\* 1/FineScale: reduction of the angle to the first octant
CosTurn(x, d) ==
    LET r == x % (2 * d)
        r1 == IF r > d THEN 2 * d - r ELSE r
    IN  IF 2 * r1 > d THEN -CosOctant(d - r1, d) ELSE CosOctant(r1, d)
SinTurn(x, d) ==
    LET r == x % (2 * d)
        r1 == IF r > d THEN r - d ELSE r
        r2 == IF 2 * r1 > d THEN d - r1 ELSE r1
    IN  IF r > d THEN -SinOctant(r2, d) ELSE SinOctant(r2, d)

\* pi32 = (Pi32Hi * 2^12 + Pi32Lo) * 2^-22; pi32 - pi in units of 10^-12;
\* 2^-22 in units of 10^-12
Pi32Hi == 3216
Pi32Lo == 4059
PiErrPico == 87423
UlpPico == 238419

RECURSIVE BitLen(_)
BitLen(n) == IF n = 0 THEN 0 ELSE 1 + BitLen(n \div 2)

\* round to nearest, ties to even: 1 when the quotient q with doubled
\* remainder r2 against the divisor d rounds up
RoundEven(q, r2, d) ==
    IF r2 > d \/ (r2 = d /\ q % 2 = 1) THEN 1 ELSE 0

\* fl32(pi32 * x), x >= 1, as <<m, s, c>>: the product is m * 2^(s-22) and
\* c * 2^-22 is its rounding error
Pi32Times(x) ==
    LET t == Pi32Lo * x
        lo == t % 4096
        hi == Pi32Hi * x + t \div 4096
        s == BitLen(hi) - 12
        shifted == hi * 2^(12 - s) + lo \div 2^s
        low == lo % 2^s
        up == IF s > 0 THEN RoundEven(shifted, 2 * low, 2^s) ELSE 0
    IN  <<shifted + up, s, up * 2^s - low>>

\* k further binary digits of the quotient q with remainder r of a division
\* by d
RECURSIVE LongDiv(_, _, _, _)
LongDiv(q, r, d, k) ==
    IF k = 0 THEN <<q, r>>
    ELSE LongDiv(2 * q + (IF 2 * r >= d THEN 1 ELSE 0), (2 * r) % d, d, k - 1)

\* fl32(fl32(pi32 * x) / d) - pi * x / d in units of 10^-9, x >= 1, d >= 1
DeltaNano(x, d) ==
    LET p == Pi32Times(x)
        q0 == p[1] \div d
        k == 24 - BitLen(q0)
        qr == LongDiv(q0, p[1] % d, d, k)
        up == RoundEven(qr[1], 2 * qr[2], d)
        n == 22 + k - p[2]
        ulp == IF n <= 30 THEN 10^9 \div 2^n ELSE 0
    IN  RoundDiv(RoundDiv(p[3] * UlpPico + PiErrPico * x, d), 1000)
        + RoundDiv((up * d - qr[2]) * ulp, d)

\* ops.cos(math.pi * float32(x) / float32(d)) for d > 0, in units of 1/Scale
CosPiU(x, d) ==
    IF x = 0 THEN Scale
    ELSE RoundDiv(CosTurn(Abs(x), d)
                    - RoundDiv(FineMul(SinTurn(Abs(x), d),
                                       DeltaNano(Abs(x), d)), 10),
                  100)

\* variant of the cosine: a zero denominator treated as a zero argument
CosPi_guarded(x, d) ==
    IF d = 0 THEN Fin(Scale)
    ELSE Fin(CosPiU(IF d < 0 THEN -x ELSE x, Abs(d)))

\* ops.cos(math.pi * float32(x) / float32(d)): d = 0 gives pi*x/0, which is
\* NaN or an infinity, and the cosine of either is NaN
CosPi(x, d) ==
    IF d = 0 THEN NaN
    ELSE Fin(CosPiU(IF d < 0 THEN -x ELSE x, Abs(d)))

\* ops.where on scalars
Where(c, x, y) == IF c THEN x ELSE y

(* ---------------------------------------------------------------------- *)
(* The program.                                                            *)
(* ---------------------------------------------------------------------- *)
\* Values the notebook and the defaults give to the two rates
DefaultStartLr == 0
NotebookStartLr == 50000
DefaultTargetLr == 10000
OtherTargetLr == 10 * DefaultTargetLr

\* A step reaches the schedule either as a plain Python number or as a
\* framework tensor (the optimizer's iteration counter)
StepKinds == {"py", "tensor"}

\* global_step / warmup_steps
StepOverWarmup(kind, global_step, warmup_steps) ==
    IF kind = "py"
    THEN PyDiv(global_step, warmup_steps)
    ELSE TensorDiv(global_step, warmup_steps)

\* variants of the decay value: the window taken without the warmup steps,
\* the factor 0.5 dropped, the cosine subtracted
CosineDecay_window(global_step, warmup_steps, hold, total_steps, target_lr) ==
    FMul(FMul(Fin(Scale \div 2), Fin(target_lr)),
         FAdd(Fin(Scale),
              CosPi(global_step - warmup_steps - hold, total_steps - hold)))
CosineDecay_nohalf(global_step, warmup_steps, hold, total_steps, target_lr) ==
    FMul(Fin(target_lr),
         FAdd(Fin(Scale),
              CosPi(global_step - warmup_steps - hold,
                    total_steps - warmup_steps - hold)))
CosineDecay_minus(global_step, warmup_steps, hold, total_steps, target_lr) ==
    FMul(FMul(Fin(Scale \div 2), Fin(target_lr)),
         FAdd(Fin(Scale),
              FMul(Fin(-Scale),
                   CosPi(global_step - warmup_steps - hold,
                         total_steps - warmup_steps - hold))))

\* the cosine decay value, computed unconditionally
CosineDecay(global_step, warmup_steps, hold, total_steps, target_lr) ==
    FMul(FMul(Fin(Scale \div 2), Fin(target_lr)),
         FAdd(Fin(Scale),
              CosPi(global_step - warmup_steps - hold,
                    total_steps - warmup_steps - hold)))

\* warmup_lr = target_lr * (global_step / warmup_steps)
WarmupLr(kind, global_step, warmup_steps, target_lr) ==
    LET q == StepOverWarmup(kind, global_step, warmup_steps)
    IN  IF q = Raise THEN Raise ELSE FMul(Fin(target_lr), q)

\* variant of the hold override: the plateau compared against warmup_steps
\* alone
HoldSelect_nohold(global_step, warmup_steps, hold, target_lr, learning_rate) ==
    IF hold > 0
    THEN Where(global_step > warmup_steps, learning_rate, Fin(target_lr))
    ELSE learning_rate

\* variants of the hold override: the override left out; the plateau closed
\* one step early
HoldSelect_skipped(global_step, warmup_steps, hold, target_lr, learning_rate) ==
    learning_rate
HoldSelect_geq(global_step, warmup_steps, hold, target_lr, learning_rate) ==
    IF hold > 0
    THEN Where(global_step >= warmup_steps + hold, learning_rate, Fin(target_lr))
    ELSE learning_rate

\* if hold > 0: learning_rate = where(global_step > warmup_steps + hold,
\*                                    learning_rate, target_lr)
HoldSelect(global_step, warmup_steps, hold, target_lr, learning_rate) ==
    IF hold > 0
    THEN Where(global_step > warmup_steps + hold, learning_rate, Fin(target_lr))
    ELSE learning_rate

\* variants of the selection: the hold override applied after the warmup
\* override; the warmup override applied up to the end of the plateau; the
\* warmup ramp started at start_lr
lr_warmup_cosine_decay_holdlast(kind, global_step, warmup_steps, hold, total_steps, start_lr, target_lr) ==
    LET decay == CosineDecay(global_step, warmup_steps, hold, total_steps,
                             target_lr)
        warmup_lr == WarmupLr(kind, global_step, warmup_steps, target_lr)
        warmed == Where(global_step < warmup_steps, warmup_lr, decay)
    IN  IF warmup_lr = Raise THEN Raise
        ELSE HoldSelect(global_step, warmup_steps, hold, target_lr, warmed)
lr_warmup_cosine_decay_longwarm(kind, global_step, warmup_steps, hold, total_steps, start_lr, target_lr) ==
    LET decay == CosineDecay(global_step, warmup_steps, hold, total_steps,
                             target_lr)
        warmup_lr == WarmupLr(kind, global_step, warmup_steps, target_lr)
        held == HoldSelect(global_step, warmup_steps, hold, target_lr, decay)
    IN  IF warmup_lr = Raise THEN Raise
        ELSE Where(global_step < warmup_steps + hold, warmup_lr, held)
lr_warmup_cosine_decay_startfloor(kind, global_step, warmup_steps, hold, total_steps, start_lr, target_lr) ==
    LET decay == CosineDecay(global_step, warmup_steps, hold, total_steps,
                             target_lr)
        ramp == WarmupLr(kind, global_step, warmup_steps, target_lr - start_lr)
        held == HoldSelect(global_step, warmup_steps, hold, target_lr, decay)
    IN  IF ramp = Raise THEN Raise
        ELSE Where(global_step < warmup_steps, FAdd(Fin(start_lr), ramp), held)

\* variant of the selection: the warmup override kept to non-negative steps
lr_warmup_cosine_decay_nonneg(kind, global_step, warmup_steps, hold, total_steps, start_lr, target_lr) ==
    LET decay == CosineDecay(global_step, warmup_steps, hold, total_steps,
                             target_lr)
        warmup_lr == WarmupLr(kind, global_step, warmup_steps, target_lr)
        held == HoldSelect(global_step, warmup_steps, hold, target_lr, decay)
    IN  IF warmup_lr = Raise THEN Raise
        ELSE Where(0 <= global_step /\ global_step < warmup_steps,
                   warmup_lr, held)

lr_warmup_cosine_decay(kind, global_step, warmup_steps, hold, total_steps, start_lr, target_lr) ==
    LET decay == CosineDecay(global_step, warmup_steps, hold, total_steps,
                             target_lr)
        warmup_lr == WarmupLr(kind, global_step, warmup_steps, target_lr)
        held == HoldSelect(global_step, warmup_steps, hold, target_lr, decay)
    IN  IF warmup_lr = Raise THEN Raise
        ELSE Where(global_step < warmup_steps, warmup_lr, held)

\* WarmUpCosineDecay.__init__
WarmUpCosineDecay_init(warmup_steps, total_steps, hold, start_lr, target_lr) ==
    [start_lr |-> start_lr, target_lr |-> target_lr,
     warmup_steps |-> warmup_steps, total_steps |-> total_steps,
     hold |-> hold]

\* variant of __call__: the clamp after total_steps left out
WarmUpCosineDecay_call_noclamp(obj, kind, step) ==
    lr_warmup_cosine_decay(kind, step, obj.warmup_steps, obj.hold,
                           obj.total_steps, obj.start_lr, obj.target_lr)

\* variant of __call__: the two values of the clamp exchanged
WarmUpCosineDecay_call_swapped(obj, kind, step) ==
    LET lr == lr_warmup_cosine_decay(kind, step, obj.warmup_steps, obj.hold,
                                     obj.total_steps, obj.start_lr,
                                     obj.target_lr)
    IN  IF lr = Raise THEN Raise
        ELSE Where(step > obj.total_steps, lr, Fin(0))

\* WarmUpCosineDecay.__call__
WarmUpCosineDecay_call(obj, kind, step) ==
    LET lr == lr_warmup_cosine_decay(kind, step, obj.warmup_steps, obj.hold,
                                     obj.total_steps, obj.start_lr,
                                     obj.target_lr)
    IN  IF lr = Raise THEN Raise
        ELSE Where(step > obj.total_steps, Fin(0), lr)

\* The schedule the notebook builds for its optimizer:
\*   total_steps = (total_images // BATCH_SIZE) * EPOCHS
\*   warmup_steps = int(0.1 * total_steps)
\*   hold_steps = int(0.45 * total_steps)
total_images == 9000
BATCH_SIZE == 32
WarmupFraction == 100000
HoldFraction == 450000

\* int(x) of a finite float: truncation toward zero
PyInt(x) == Sgn(x.v) * (Abs(x.v) \div Scale)

\* variant of the notebook's schedule: the warmup taken as a tenth of the
\* epochs
NotebookSchedule_epochwarm(EPOCHS) ==
    LET total == (total_images \div BATCH_SIZE) * EPOCHS
        warmup == PyInt(FMul(Fin(WarmupFraction), Fin(EPOCHS * Scale)))
        hold_steps == PyInt(FMul(Fin(HoldFraction), Fin(total * Scale)))
    IN  WarmUpCosineDecay_init(warmup, total, hold_steps, NotebookStartLr,
                               DefaultTargetLr)

NotebookSchedule(EPOCHS) ==
    LET total == (total_images \div BATCH_SIZE) * EPOCHS
        warmup == PyInt(FMul(Fin(WarmupFraction), Fin(total * Scale)))
        hold_steps == PyInt(FMul(Fin(HoldFraction), Fin(total * Scale)))
    IN  WarmUpCosineDecay_init(warmup, total, hold_steps, NotebookStartLr,
                               DefaultTargetLr)

(* ---------------------------------------------------------------------- *)
(* The augmentation pipeline.  An image is its side length and the list of *)
(* the layer applications it went through, each with the random draw the   *)
(* layer made; a dataset element is a dict of images and labels.           *)
(* ---------------------------------------------------------------------- *)
IMAGE_SIZE == 224
CropFraction == 900000

\* int(IMAGE_SIZE[0] * 0.9)
CropSize == PyInt(FMul(Fin(IMAGE_SIZE * Scale), Fin(CropFraction)))

LayerNames == {"RandomFlip", "RandomCrop", "RandomRotation", "Resizing"}
Draws == {0, 1}

\* augmenters as the notebook's cells build it
NotebookAugmenters ==
    <<"RandomFlip", "RandomCrop", "RandomRotation", "Resizing">>

\* augmenter(images) for one of the four layers
Layer(name, draw, images) ==
    [size |-> CASE name = "RandomCrop" -> CropSize
                [] name = "Resizing" -> IMAGE_SIZE
                [] OTHER -> images.size,
     ops |-> Append(images.ops, <<name, draw>>)]

\* the loop of augmenter_fn from the i-th augmenter on
RECURSIVE ApplyFrom(_, _, _, _)
ApplyFrom(augs, draws, i, inp) ==
    IF i > Len(augs) THEN inp
    ELSE ApplyFrom(augs, draws, i + 1,
                   [inp EXCEPT !.images = Layer(augs[i], draws[i], @)])

\* variant of the loop: every augmenter applied to the images the function
\* was called with
RECURSIVE ApplyToOriginal(_, _, _, _, _)
ApplyToOriginal(augs, draws, i, orig, inp) ==
    IF i > Len(augs) THEN inp
    ELSE ApplyToOriginal(augs, draws, i + 1, orig,
                   [inp EXCEPT !.images = Layer(augs[i], draws[i], orig)])
augmenter_fn_original(augs, draws, inp) ==
    ApplyToOriginal(augs, draws, 1, inp.images, inp)

\* create_augmenter_fn(augs)(inp), draws[i] the random draw of augs[i]
augmenter_fn(augs, draws, inp) == ApplyFrom(augs, draws, 1, inp)

(* ---------------------------------------------------------------------- *)
(* State machine: one schedule object, queried repeatedly.                 *)
(* ---------------------------------------------------------------------- *)
VARIABLES self, first, last, ncalls, augmenters, element, inputs, aug_done

vars == <<self, first, last, ncalls, augmenters, element, inputs, aug_done>>
schedvars == <<self, first, last, ncalls>>
augvars == <<augmenters, element, inputs, aug_done>>

\* The configuration of the documented scenario (warmup_steps = 10,
\* total_steps = 100, hold = 0, target_lr = 0.01) and the steps it is
\* queried at
ScenarioConfig(s) == WarmUpCosineDecay_init(10, 100, 0, s, DefaultTargetLr)
ScenarioSteps == {0, 5, 10, 55, 100, 150}

StartLrs == {DefaultStartLr, NotebookStartLr}
TargetLrs == {DefaultTargetLr, OtherTargetLr}

Configs ==
    {WarmUpCosineDecay_init(w, t, h, s, g) :
        w \in 0..MaxW, t \in 0..MaxTotal, h \in 0..MaxHold,
        s \in StartLrs, g \in TargetLrs}
    \cup {ScenarioConfig(s) : s \in StartLrs}
    \cup {NotebookSchedule(e) : e \in 1..MaxEpochs}

Steps == ((-MaxNeg)..MaxStep) \cup ScenarioSteps

NoCall == [step |-> 0, kind |-> "none", out |-> NaN]

\* the dataset elements: images of a side length with no layer applied yet,
\* and a label
Elements ==
    {[images |-> [size |-> n, ops |-> <<>>], labels |-> l] :
        n \in {IMAGE_SIZE, 160}, l \in 0..MaxLabel}

\* the pipeline with the notebook's list, before any element is mapped
AugIdle ==
    /\ augmenters = NotebookAugmenters
    /\ element = [images |-> [size |-> IMAGE_SIZE, ops |-> <<>>], labels |-> 0]
    /\ inputs = element
    /\ aug_done = FALSE

Init ==
    /\ self \in Configs
    /\ first = NoCall
    /\ last = NoCall
    /\ ncalls = 0
    /\ AugIdle

\* variant of a query: the plateau length counted down on the object
Call_countdown(kind, step) ==
    LET c == [step |-> step, kind |-> kind,
              out |-> WarmUpCosineDecay_call(self, kind, step)]
    IN  /\ ncalls < MaxCalls
        /\ last' = c
        /\ first' = IF ncalls = 0 THEN c ELSE first
        /\ ncalls' = ncalls + 1
        /\ self' = [self EXCEPT !.hold = IF @ > 0 THEN @ - 1 ELSE 0]
        /\ UNCHANGED augvars

\* one query schedule(step)
Call(kind, step) ==
    LET c == [step |-> step, kind |-> kind,
              out |-> WarmUpCosineDecay_call(self, kind, step)]
    IN  /\ ncalls < MaxCalls
        /\ last' = c
        /\ first' = IF ncalls = 0 THEN c ELSE first
        /\ ncalls' = ncalls + 1
        /\ UNCHANGED self
        /\ UNCHANGED augvars

Next == \E kind \in StepKinds, step \in Steps : Call(kind, step)

Spec == Init /\ [][Next]_vars

\* The training loop: the optimizer queries the schedule once per step with
\* its iteration counter 0, 1, 2, ...
TrainStep(kind) ==
    LET c == [step |-> ncalls, kind |-> kind,
              out |-> WarmUpCosineDecay_call(self, kind, ncalls)]
    IN  /\ ncalls <= MaxTrain
        /\ last' = c
        /\ first' = IF ncalls = 0 THEN c ELSE first
        /\ ncalls' = ncalls + 1
        /\ UNCHANGED self
        /\ UNCHANGED augvars

TrainNext == \E kind \in StepKinds : TrainStep(kind)

TrainSpec == Init /\ [][TrainNext]_vars

\* The data pipeline: train_ds.map(augmenter_fn) calls augmenter_fn on one
\* element after the other
AugLists == UNION {[1..n -> LayerNames] : n \in 0..MaxAugs}

AugInit ==
    /\ self = NotebookSchedule(1)
    /\ first = NoCall
    /\ last = NoCall
    /\ ncalls = 0
    /\ augmenters \in AugLists
    /\ element \in Elements
    /\ inputs = element
    /\ aug_done = FALSE

\* augmenter_fn(inputs): the dict is updated in place and returned
AugmenterFn ==
    /\ ~aug_done
    /\ \E draws \in [1..Len(augmenters) -> Draws] :
          inputs' = augmenter_fn(augmenters, draws, inputs)
    /\ aug_done' = TRUE
    /\ UNCHANGED <<augmenters, element>>
    /\ UNCHANGED schedvars

\* the dataset hands the next element to the mapped function
NextElement ==
    /\ aug_done
    /\ element' \in Elements
    /\ inputs' = element'
    /\ aug_done' = FALSE
    /\ UNCHANGED augmenters
    /\ UNCHANGED schedvars

AugNext == AugmenterFn \/ NextElement

AugSpec == AugInit /\ [][AugNext]_vars

TypeOK ==
    /\ self \in Configs
    /\ ncalls \in 0..MaxCalls
    /\ last.step \in Steps
    /\ last.out.k \in {"fin", "nan", "inf", "ZeroDivisionError"}

(* ---------------------------------------------------------------------- *)
(* Properties.                                                             *)
(* ---------------------------------------------------------------------- *)
Called == last.kind # "none"
W == self.warmup_steps
H == self.hold
Total == self.total_steps
T == self.target_lr
DivisionRaises == last.kind = "py" /\ W = 0

\* C1: in the warmup range (W >= 1, 0 <= step < W, step <= total_steps) the
\* returned rate is target_lr * step / W, also when hold > 0.
C1_WarmupRamp ==
    (Called /\ W >= 1 /\ 0 <= last.step /\ last.step < W /\ last.step <= Total)
        => last.out = Fin(RoundDiv(T * last.step, W))

C1_Witness ==
    /\ Called /\ H > 0 /\ W >= 2 /\ last.step = 1 /\ Total >= 1
    /\ last.out = Fin(RoundDiv(T, W))
    /\ last.out # Fin(T)

\* C2 as stated: with hold > 0 every step with W <= step <= W + hold and
\* step <= total_steps returns exactly target_lr.
C2_HoldPlateau_AsStated ==
    (Called /\ H > 0 /\ W <= last.step /\ last.step <= W + H
            /\ last.step <= Total)
        => last.out = Fin(T)

\* C2 as amended: the plateau returns exactly target_lr unless the warmup
\* division raises (warmup_steps = 0 queried with a plain Python number),
\* in which case the query raises ZeroDivisionError.
C2_HoldPlateau ==
    (Called /\ H > 0 /\ W <= last.step /\ last.step <= W + H
            /\ last.step <= Total)
        => last.out = IF DivisionRaises THEN Raise ELSE Fin(T)

C2_Witness ==
    /\ Called /\ H >= 2 /\ W >= 1 /\ Total > W + H
    /\ last.step = W + 1
    /\ last.out = Fin(T)

\* C3 as stated: every step greater than total_steps returns 0.
C3_Clamp_AsStated ==
    (Called /\ last.step > Total) => last.out = Fin(0)

\* C3 as amended: every step greater than total_steps returns 0, also when
\* the step is still in the warmup or hold range, unless the warmup
\* division raises (warmup_steps = 0 queried with a plain Python number).
C3_Clamp ==
    (Called /\ last.step > Total)
        => last.out = IF DivisionRaises THEN Raise ELSE Fin(0)

C3_Witness ==
    /\ Called /\ W >= 2 /\ Total < W
    /\ last.step > Total /\ 0 < last.step /\ last.step < W
    /\ last.out = Fin(0)

\* C4: with hold = 0 and total_steps > W >= 1 the rate at step W is
\* target_lr, the rate at total_steps is 0, and for W + hold < step <=
\* total_steps it is 0.5 * target_lr * (1 + cos(pi * (step - W - hold) /
\* (total_steps - W - hold))).
C4_DecayShape ==
    (Called /\ H = 0 /\ W >= 1 /\ Total > W)
        => /\ last.step = W => last.out = Fin(T)
           /\ last.step = Total => last.out = Fin(0)
           /\ (W + H < last.step /\ last.step <= Total)
                => last.out = Fin(FxMul(FxMul(Scale \div 2, T),
                                  Scale + CosPiU(last.step - W - H,
                                                 Total - W - H)))

C4_Witness ==
    /\ Called /\ H = 0 /\ W >= 1 /\ Total >= W + 3
    /\ first.step = W /\ first.out = Fin(T)
    /\ last.step = Total - 1
    /\ last.out.k = "fin" /\ 0 < last.out.v /\ last.out.v < T \div 2

\* C5: the documented scenario W=10, total_steps=100, hold=0,
\* target_lr=0.01 gives 0.0, 0.005, 0.01, 0.005, 0.0, 0.0 at the steps
\* 0, 5, 10, 55, 100, 150.
ScenarioRate(step) ==
    CASE step = 0 -> 0
      [] step = 5 -> 5000
      [] step = 10 -> 10000
      [] step = 55 -> 5000
      [] step = 100 -> 0
      [] step = 150 -> 0
InScenario == self = ScenarioConfig(self.start_lr)
C5_Scenario ==
    (Called /\ InScenario /\ last.step \in ScenarioSteps)
        => last.out = Fin(ScenarioRate(last.step))

C5_Witness ==
    /\ ncalls = 3 /\ InScenario
    /\ first.step = 5 /\ first.out = Fin(5000)
    /\ last.step = 55 /\ last.out = Fin(5000)

\* C6: with W >= 1, hold = 0 and total_steps > W the rate is non-decreasing
\* over the steps of [0, W] and non-increasing over the steps of
\* [W, total_steps].
LeqRate(a, b) == a.k = "fin" /\ b.k = "fin" /\ a.v <= b.v
C6_Monotone ==
    (ncalls >= 2 /\ W >= 1 /\ H = 0 /\ Total > W)
        => \A a, b \in {first, last} :
              /\ (0 <= a.step /\ a.step <= b.step /\ b.step <= W)
                    => LeqRate(a.out, b.out)
              /\ (W <= a.step /\ a.step <= b.step /\ b.step <= Total)
                    => LeqRate(b.out, a.out)

C6_Witness ==
    /\ ncalls >= 2 /\ W >= 1 /\ H = 0 /\ Total >= W + 2
    /\ first.step = W + 1 /\ last.step = W + 2
    /\ first.out.k = "fin" /\ last.out.k = "fin"
    /\ last.out.v < first.out.v

\* C7: under the data-model constraints (W >= 1, hold >= 0, total_steps >
\* W + hold, target_lr > 0) every step >= 0 returns a finite rate r with
\* 0 <= r <= target_lr.
WellFormed == W >= 1 /\ H >= 0 /\ Total > W + H /\ T > 0
C7_Range ==
    (Called /\ WellFormed /\ last.step >= 0)
        => /\ last.out.k = "fin"
           /\ 0 <= last.out.v
           /\ last.out.v <= T

C7_Witness ==
    /\ Called /\ WellFormed /\ H > 0
    /\ last.step > W + H /\ last.step < Total
    /\ last.out.k = "fin" /\ 0 < last.out.v /\ last.out.v < T

\* C8: a query never changes the five configuration fields, and two queries
\* with the same step return the same rate whatever was queried in between.
SameQuery(a, b) == a.step = b.step /\ a.kind = b.kind
C8_Pure ==
    [][/\ self' = self
       /\ SameQuery(first', last') => first'.out = last'.out]_vars

C8_Witness ==
    /\ ncalls = 3 /\ WellFormed
    /\ SameQuery(first, last) /\ first.out = last.out
    /\ first.step = W + H + 1

\* C9: the returned rate does not depend on start_lr: the schedule that
\* differs only in start_lr returns the same rate for the same query, and a
\* schedule built with start_lr = 0.05 and target_lr = 0.01 returns 0 at
\* step 0.
C9_StartLrUnused ==
    Called =>
        /\ \A s \in StartLrs :
              WarmUpCosineDecay_call([self EXCEPT !.start_lr = s],
                                     last.kind, last.step) = last.out
        /\ (self.start_lr = NotebookStartLr /\ T = DefaultTargetLr
                /\ W >= 1 /\ Total >= 0 /\ last.step = 0)
              => last.out = Fin(0)

C9_Witness ==
    /\ Called /\ self.start_lr = NotebookStartLr /\ T = DefaultTargetLr
    /\ WellFormed /\ H > 0
    /\ first.step = 0 /\ first.out = Fin(0)
    /\ last.step = 1 /\ W = 2 /\ last.out = Fin(T \div 2)

\* C10 as stated: a schedule with warmup_steps = 0 or total_steps =
\* warmup_steps + hold is constructed without error, no query of it reports
\* an error, and with hold = 0 and total_steps = warmup_steps the rate at
\* step = warmup_steps is NaN.
ZeroWindow == W = 0 \/ Total = W + H
C10_Unguarded_AsStated ==
    (Called /\ ZeroWindow)
        => /\ last.out # Raise
           /\ (H = 0 /\ Total = W /\ last.step = W) => last.out = NaN

\* C10 as amended: such a schedule is constructed without error; a query of
\* it raises exactly when warmup_steps = 0 and the step is a plain Python
\* number (ZeroDivisionError from the warmup division, not caught by the
\* schedule), a tensor step never raises, and a zero decay window never
\* raises; with hold = 0 and total_steps = warmup_steps the rate at step =
\* warmup_steps is NaN whenever the query does not raise.
C10_Unguarded ==
    (Called /\ ZeroWindow)
        => /\ last.out = Raise <=> DivisionRaises
           /\ (H = 0 /\ Total = W /\ last.step = W /\ ~DivisionRaises)
                => last.out = NaN

C10_Witness ==
    /\ ncalls >= 2
    /\ W >= 1 /\ H = 0 /\ Total = W
    /\ first.step = W /\ first.kind = "py" /\ first.out = NaN
    /\ last.step = W - 1 /\ last.out.k = "fin"

\* C11: a negative step (W >= 1, total_steps >= 0) is not validated and
\* returns the warmup formula target_lr * step / W, a negative rate.
C11_NegativeStep ==
    (Called /\ last.step < 0 /\ W >= 1 /\ Total >= 0)
        => /\ last.out = Fin(RoundDiv(T * last.step, W))
           /\ last.out.v < 0

C11_Witness ==
    /\ Called /\ last.step = -1 /\ W = 2 /\ H > 0 /\ Total > W + H
    /\ last.out = Fin(-(T \div 2))

\* C12: for W >= 1, hold >= 0, total_steps > W + hold and step >= 0 the
\* returned rate is the value of the one phase the step range selects:
\* Finished (step > total_steps) 0, else Warmup (step < W) target_lr*step/W,
\* else Hold (hold > 0 and step <= W + hold) target_lr, else Decay the
\* cosine formula; with hold = 0 the step W is Decay.
Phase(step) ==
    IF step > Total THEN "Finished"
    ELSE IF step < W THEN "Warmup"
    ELSE IF H > 0 /\ step <= W + H THEN "Hold"
    ELSE "Decay"
PhaseValue(step) ==
    CASE Phase(step) = "Finished" -> Fin(0)
      [] Phase(step) = "Warmup" -> Fin(RoundDiv(T * step, W))
      [] Phase(step) = "Hold" -> Fin(T)
      [] Phase(step) = "Decay" ->
            Fin(FxMul(FxMul(Scale \div 2, T),
                      Scale + CosPiU(step - W - H, Total - W - H)))
C12_PhaseClassification ==
    (Called /\ W >= 1 /\ H >= 0 /\ Total > W + H /\ last.step >= 0)
        => /\ last.out = PhaseValue(last.step)
           /\ (H = 0 /\ last.step = W) => Phase(last.step) = "Decay"

C12_Witness ==
    /\ ncalls >= 2 /\ W >= 1 /\ H > 0 /\ Total > W + H + 1
    /\ Phase(first.step) = "Hold" /\ first.step = W + H
    /\ first.out = Fin(T)
    /\ Phase(last.step) = "Decay" /\ last.step = W + H + 1
    /\ last.out = PhaseValue(last.step) /\ last.out.v < T

\* C14: with hold > 0, W >= 1 and total_steps = W + hold the undefined decay
\* value is never selected: every step >= 0 returns target_lr*step/W below
\* W, target_lr from W to total_steps, and 0 above total_steps.
C14_ZeroDecayWindow ==
    (Called /\ H > 0 /\ W >= 1 /\ Total = W + H /\ last.step >= 0)
        => last.out = IF last.step < W THEN Fin(RoundDiv(T * last.step, W))
                      ELSE IF last.step <= Total THEN Fin(T)
                      ELSE Fin(0)

C14_Witness ==
    /\ ncalls >= 2 /\ H > 0 /\ W >= 1 /\ Total = W + H
    /\ first.step = Total /\ first.out = Fin(T)
    /\ last.step = Total + 1 /\ last.out = Fin(0)

\* C13: when the training loop queries the steps 0, 1, 2, ... in order on a
\* configuration with W >= 1 and total_steps > W + hold, each query returns
\* the value of the phase of its step, the phases follow the order Warmup,
\* Hold (only if hold > 0), Decay, Finished without a phase being
\* re-entered, and after a query above total_steps every query returns 0.
PhaseRank(p) ==
    CASE p = "Warmup" -> 0
      [] p = "Hold" -> 1
      [] p = "Decay" -> 2
      [] p = "Finished" -> 3
C13_PhaseOrder ==
    [][(ncalls >= 1 /\ W >= 1 /\ Total > W + H)
         => /\ last'.step = last.step + 1
            /\ last'.out = PhaseValue(last'.step)
            /\ PhaseRank(Phase(last'.step)) >= PhaseRank(Phase(last.step))
            /\ (H = 0 => Phase(last'.step) # "Hold")
            /\ (last.step > Total => last'.out = Fin(0))]_vars

C13_Witness ==
    /\ W >= 1 /\ H > 0 /\ Total > W + H
    /\ first.step = 0 /\ first.out = Fin(0)
    /\ ncalls = Total + 3
    /\ last.step = Total + 2 /\ last.out = Fin(0)

\* C15: the schedule the notebook builds meets the data-model constraints
\* for every EPOCHS >= 1 (warmup_steps >= 1, hold >= 0, total_steps >
\* warmup_steps + hold), so no query of it divides by zero.
IsNotebook == \E e \in 1..MaxEpochs : self = NotebookSchedule(e)
C15_NotebookConfig ==
    IsNotebook
        => /\ W >= 1 /\ H >= 0 /\ Total > W + H
           /\ Called => last.out.k = "fin"

C15_Witness ==
    /\ IsNotebook /\ Called
    /\ Total = 281 /\ W = 28 /\ H = 126
    /\ last.step = 150 /\ last.out = Fin(T)

\* C16: the function create_augmenter_fn returns applies every augmenter of
\* the list exactly once and in list order, each to the images the previous
\* one left in inputs["images"], and leaves the labels unchanged; for the
\* notebook's list the order is RandomFlip, RandomCrop, RandomRotation,
\* Resizing.
Resizers == {i \in 1..Len(augmenters) :
                augmenters[i] \in {"RandomCrop", "Resizing"}}
LastResizer == CHOOSE i \in Resizers : \A j \in Resizers : j <= i
C16_AugmentersInOrder ==
    aug_done
        => /\ DOMAIN inputs = DOMAIN element
           /\ inputs.labels = element.labels
           /\ Len(inputs.images.ops) = Len(augmenters)
           /\ \A i \in 1..Len(augmenters) :
                 inputs.images.ops[i][1] = augmenters[i]
           /\ inputs.images.size =
                 IF Resizers = {} THEN element.images.size
                 ELSE IF augmenters[LastResizer] = "Resizing" THEN IMAGE_SIZE
                 ELSE CropSize

C16_Witness ==
    /\ aug_done /\ augmenters = NotebookAugmenters
    /\ element.images.size = 160 /\ element.labels = 1
    /\ inputs.labels = 1
    /\ inputs.images.size = IMAGE_SIZE
    /\ inputs.images.ops =
          <<(<<"RandomFlip", 1>>), (<<"RandomCrop", 0>>),
            (<<"RandomRotation", 1>>), (<<"Resizing", 0>>)>>

====
